---- MODULE Spec2Model ----
(***************************************************************************)
(* A model of cubiculum: the fraction extraction bed_to_fraction           *)
(* (src/src/extract/extract.rs), the interval algebra                      *)
(* (src/src/merge/merge.rs) and the BedEntry methods clip_by, to_cds and   *)
(* graft (src/src/structs/structs.rs).  Each part has its own variables    *)
(* and its own specification: Spec, SpecMerge and SpecEntry.  SpecGraftAny *)
(* is graft on records of any format, SpecCodec is parse_bed and to_line   *)
(* on the text of a line, and SpecText is bed_to_fraction from the text of *)
(* a line.                                                                 *)
(*                                                                         *)
(* Fraction extraction.                                                    *)
(* The function is a single pass over the blocks of one BED12 line.  The   *)
(* model keeps the parsed line, the call's arguments, the loop's locals    *)
(* and the returned value, and takes one step per loop iteration.          *)
(*                                                                         *)
(* Arithmetic.  All coordinates are u64.  A u64 value is represented by    *)
(* the integer of smallest magnitude congruent to it modulo 2^64, so that  *)
(* wrapping addition and subtraction are the integers' own, and a negative *)
(* representative n stands for the stored (and printed) value 2^64 + n.    *)
(* With overflow checks on (a debug build) a subtraction a - b with a < b  *)
(* panics instead; overflow_checks is the build's setting.                 *)
(***************************************************************************)
EXTENDS Integers, Naturals, Sequences, FiniteSets, TLC

VARIABLES line, mode, intron, bed6, overflow_checks, pc, i, st, result

\* a call into src/src/merge/merge.rs: the vector passed in (sorted in place
\* by the functions that sort), the function called and what it returned
VARIABLES intervals, merge_fn, merge_ret

extract_vars == <<line, mode, intron, bed6, overflow_checks, pc, i, st, result>>
merge_vars == <<intervals, merge_fn, merge_ret>>

\* a call of a BedEntry method of src/src/structs/structs.rs: the receiver,
\* the call made on it (method, arguments, the receiver before the call) and
\* the value returned
VARIABLES bed, bed_call, bed_ret

bed_vars == <<bed, bed_call, bed_ret>>

\* parse_bed and to_line: the line read, the column count asked for, the
\* record parsed from the line, the line written from the record and the
\* record parsed from the written line
VARIABLES text, columns, entry, written, reparsed

codec_vars == <<text, columns, entry, written, reparsed>>
vars == <<extract_vars, merge_vars, bed_vars, codec_vars>>

(***************************************************************************)
(* Bounds of the input space.                                              *)
(***************************************************************************)
MaxBlocks == 3
MaxSize == 3
MaxGap == 2
MaxThinStart == 1
MaxSpan == 7
MaxIntervals == 3
MaxCoord == 4
MaxExons == 3
MaxExonSize == 2
MaxIntron == 3
MaxExonSpan == 6
MaxUtr == 1
Lead == 2
MaxAnySpan == 5
MaxTextSpan == 3
MaxColumns == 13
MaxFormat == 13

Max(a, b) == IF a >= b THEN a ELSE b
Min(a, b) == IF a <= b THEN a ELSE b

Modes == {"all", "cds", "utr", "5utr", "3utr"}

(***************************************************************************)
(* Input lines: the twelve columns of a BED12 line after splitting and     *)
(* numeric parsing.  chrom, name, score and rgb are opaque strings the     *)
(* function copies to its output.                                          *)
(***************************************************************************)
RECURSIVE StartsOf(_, _, _)
\* relative block starts of a layout: block k starts where block k-1 ends
\* plus the gap (an intron of at least one base) that follows block k-1
StartsOf(sizes, gaps, k) ==
    IF k = 1 THEN <<0>>
    ELSE LET prev == StartsOf(sizes, gaps, k - 1)
         IN  Append(prev, prev[k - 1] + sizes[k - 1] + gaps[k - 1])

Layouts ==
    UNION { { [sizes |-> s, starts |-> StartsOf(s, g, n)] :
                s \in [1..n -> 1..MaxSize], g \in [1..(n - 1) -> 1..MaxGap] } :
            n \in 1..MaxBlocks }

SpanOf(l) == l.starts[Len(l.starts)] + l.sizes[Len(l.sizes)]

Lines ==
    { [chrom |-> "chr9", thin_start |-> a, thin_end |-> a + SpanOf(l),
       name |-> "tx", score |-> "0", strand_line |-> sl,
       thick_start |-> ts, thick_end |-> te, rgb |-> "0",
       ex_num |-> Len(l.sizes), exon_sizes |-> l.sizes, exon_starts |-> l.starts] :
      a \in 0..MaxThinStart, l \in {x \in Layouts : SpanOf(x) <= MaxSpan},
      sl \in {"+", "-"}, ts \in 0..(MaxThinStart + MaxSpan), te \in 0..(MaxThinStart + MaxSpan) }

\* the BED12 invariants of a line
WellFormed(r) ==
    /\ r.thin_start <= r.thick_start
    /\ r.thick_start <= r.thick_end
    /\ r.thick_end <= r.thin_end
    /\ r.ex_num >= 1
    /\ Len(r.exon_sizes) = r.ex_num
    /\ Len(r.exon_starts) = r.ex_num
    /\ r.exon_starts[1] = 0
    /\ \A k \in 1..(r.ex_num - 1) :
          r.exon_starts[k] + r.exon_sizes[k] <= r.exon_starts[k + 1]
    /\ r.thin_start + r.exon_starts[r.ex_num] + r.exon_sizes[r.ex_num] = r.thin_end

Coding(r) == r.thick_start < r.thick_end

(***************************************************************************)
(* The loop's locals.                                                      *)
(***************************************************************************)
\* ctl: "next" = fall to the next iteration, "break" = loop left early,
\*      "panic" = the process aborted
InitLocals(r, m) ==
    [seq_start |-> IF m = "cds" THEN r.thick_start ELSE r.thin_start,
     upd_block_starts |-> <<>>, upd_block_sizes |-> <<>>, ctl |-> "next"]

\* upd_block_starts.push(a - b); upd_block_sizes.push(c - d)
Push(s, a, b, c, d, oc) ==
    IF oc /\ (a < b \/ c < d)
    THEN [s EXCEPT !.ctl = "panic"]
    ELSE [s EXCEPT !.upd_block_starts = Append(@, a - b),
                   !.upd_block_sizes = Append(@, c - d)]

\* if upd_block_starts.len() == 0 {seq_start = v}
AnchorIfFirst(s, v) ==
    IF Len(s.upd_block_starts) = 0 THEN [s EXCEPT !.seq_start = v] ELSE s

\* ReportUp with the strand left out of the test
ReportUp_IgnoreStrand(r, m) == m = "5utr"

ReportUp(r, m) ==
    LET strand == r.strand_line = "+"
    IN  (strand /\ m = "5utr") \/ (~strand /\ m = "3utr")

\* ReportDown with the strand left out of the test
ReportDown_IgnoreStrand(r, m) == m = "3utr"

ReportDown(r, m) ==
    LET strand == r.strand_line = "+"
    IN  (strand /\ m = "3utr") \/ (~strand /\ m = "5utr")

\* cmp::max(block_start, thick_start)
UpdBlockStart(block_start, thick_start) == Max(block_start, thick_start)

\* UpdBlockEnd without the clip at thick_end
UpdBlockEnd_NoClip(block_end, thick_end) == block_end

\* cmp::min(block_end, thick_end)
UpdBlockEnd(block_end, thick_end) == Min(block_end, thick_end)

\* one iteration of the loop over blocks, for the 0-based index k; indexing
\* a vector past its end panics
BlockStep(r, m, intr, oc, s, k) ==
    LET thin_start == r.thin_start
        thick_start == r.thick_start
        thick_end == r.thick_end
        block_start == r.exon_starts[k + 1] + thin_start
        block_end == block_start + r.exon_sizes[k + 1]
        next_start == r.exon_starts[k + 2] + thin_start
        report_up == ReportUp(r, m)
        report_down == ReportDown(r, m)
        noncoding == (thick_end - thick_start) = 0
        report_coding == ~noncoding /\ (m = "cds" \/ m = "all")
        upstream_to_cds == block_end <= thick_start
        downstream_to_cds == block_start >= thick_end
        upstream_and_report ==
            upstream_to_cds /\ (m = "utr" \/ report_up \/ noncoding)
        downstream_and_report ==
            downstream_to_cds /\ (m = "utr" \/ report_down \/ noncoding)
        upd_block_start == UpdBlockStart(block_start, thick_start)
        upd_block_end == UpdBlockEnd(block_end, thick_end)
        no_block == k + 1 > Len(r.exon_starts) \/ k + 1 > Len(r.exon_sizes)
        no_next == k + 2 > Len(r.exon_starts)
        PushIntron(s1) ==
            IF no_next THEN [s1 EXCEPT !.ctl = "panic"]
            ELSE Push(s1, block_end, s1.seq_start, next_start, block_end, oc)
    IN
    IF no_block THEN [s EXCEPT !.ctl = "panic"]
    ELSE IF upstream_to_cds \/ downstream_to_cds THEN
        IF upstream_and_report \/ downstream_and_report \/ m = "all" THEN
            IF intr THEN
                LET s1 == AnchorIfFirst(s, block_end)
                IN  PushIntron(s1)
            ELSE
                LET s1 == IF downstream_to_cds
                          THEN AnchorIfFirst(s, block_start - thin_start)
                          ELSE s
                IN  Push(s1, block_start, s1.seq_start, block_end, block_start, oc)
        ELSE s
    ELSE IF report_down /\ block_end <= thick_end THEN s
    ELSE IF intr /\ report_coding THEN
        LET s1 == AnchorIfFirst(s, block_end)
        IN  IF block_end >= thick_end
            THEN [s1 EXCEPT !.ctl = "break"]
            ELSE PushIntron(s1)
    ELSE IF m = "all" THEN
        Push(s, block_start, s.seq_start, block_end, block_start, oc)
    ELSE IF m = "cds" THEN
        Push(s, upd_block_start, s.seq_start, upd_block_end, upd_block_start, oc)
    ELSE IF upd_block_start > block_start /\ (m = "utr" \/ report_up) /\ ~intr THEN
        LET s1 == Push(s, block_start, s.seq_start, upd_block_start, block_start, oc)
        IN  IF report_up /\ s1.ctl = "next" THEN [s1 EXCEPT !.ctl = "break"] ELSE s1
    ELSE IF upd_block_end < block_end /\ (m = "utr" \/ report_down) THEN
        IF intr THEN
            LET s1 == AnchorIfFirst(s, block_end)
            IN  PushIntron(s1)
        ELSE
            LET s1 == AnchorIfFirst(s, upd_block_end)
            IN  Push(s1, upd_block_end, s1.seq_start, block_end, upd_block_end, oc)
    ELSE s

\* RangeEnd with the intron range as long as the block range
RangeEnd_BlocksOnly(r, intr) == r.ex_num

\* the number of iterations: 0..ex_num-1 for introns, 0..ex_num for blocks
RangeEnd(r, intr) == IF intr THEN r.ex_num - 1 ELSE r.ex_num

NoData == [kind |-> "None"]
Panicked == [kind |-> "Panic"]

\* the BED6 lines, one per retained fragment
Bed6Lines(r, s) ==
    LET upd_block_count == Len(s.upd_block_sizes)
        strand == r.strand_line = "+"
    IN  [k \in 1..upd_block_count |->
            LET block_start == s.seq_start + s.upd_block_starts[k]
                block_end == block_start + s.upd_block_sizes[k]
                block_num == IF strand THEN (k - 1) + 1 ELSE upd_block_count - (k - 1)
            IN  [chrom |-> r.chrom, start |-> block_start, end |-> block_end,
                 name |-> r.name, score |-> block_num, strand_line |-> r.strand_line]]

\* everything after the loop: the new bounds and the output
Emit(r, m, intr, b6, s) ==
    LET upd_block_count == Len(s.upd_block_sizes)
        last_end == s.seq_start + s.upd_block_starts[upd_block_count]
                        + s.upd_block_sizes[upd_block_count]
        bounds ==
            IF m = "all" /\ ~intr THEN
                [thin_start |-> r.thin_start, thin_end |-> r.thin_end,
                 thick_start |-> r.thick_start, thick_end |-> r.thick_end]
            ELSE IF m = "cds" /\ ~intr THEN
                [thin_start |-> r.thick_start, thin_end |-> r.thick_end,
                 thick_start |-> r.thick_start, thick_end |-> r.thick_end]
            ELSE IF m = "utr" /\ ~intr THEN
                [thin_start |-> r.thin_start, thin_end |-> r.thin_end,
                 thick_start |-> r.thin_end, thick_end |-> r.thin_end]
            ELSE
                [thin_start |-> s.seq_start, thin_end |-> last_end,
                 thick_start |-> last_end, thick_end |-> last_end]
    IN
    IF upd_block_count = 0 THEN NoData
    ELSE IF b6 THEN [kind |-> "Bed6", lines |-> Bed6Lines(r, s)]
    ELSE [kind |-> "Bed12",
          rec |-> [chrom |-> r.chrom, thin_start |-> bounds.thin_start,
                   thin_end |-> bounds.thin_end, name |-> r.name,
                   score |-> r.score, strand_line |-> r.strand_line,
                   thick_start |-> bounds.thick_start,
                   thick_end |-> bounds.thick_end, rgb |-> r.rgb,
                   ex_num |-> upd_block_count,
                   exon_sizes |-> s.upd_block_sizes,
                   exon_starts |-> s.upd_block_starts]]

(***************************************************************************)
(* The function as a whole, for relating two calls to each other.          *)
(***************************************************************************)
RECURSIVE Scan(_, _, _, _, _, _)
Scan(r, m, intr, oc, s, k) ==
    IF k >= RangeEnd(r, intr) \/ s.ctl # "next" THEN s
    ELSE Scan(r, m, intr, oc, BlockStep(r, m, intr, oc, s, k), k + 1)

bed_to_fraction(r, m, intr, b6, oc) ==
    IF RangeEnd(r, intr) <= 0 THEN NoData
    ELSE LET s == Scan(r, m, intr, oc, InitLocals(r, m), 0)
         IN  IF s.ctl = "panic" THEN Panicked ELSE Emit(r, m, intr, b6, s)

(***************************************************************************)
(* The state machine: one call of bed_to_fraction, step by step.           *)
(***************************************************************************)
Init ==
    /\ line \in {r \in Lines : WellFormed(r)}
    /\ mode \in Modes
    /\ intron \in BOOLEAN
    /\ bed6 \in BOOLEAN
    /\ overflow_checks \in BOOLEAN
    /\ pc = "parse"
    /\ i = 0
    /\ st = InitLocals(line, mode)
    /\ result = [kind |-> "Pending"]
    /\ intervals = <<>> /\ merge_fn = "idle" /\ merge_ret = "idle"
    /\ bed = "idle" /\ bed_call = "idle" /\ bed_ret = "idle"
    /\ text = "idle" /\ columns = 0 /\ entry = "idle" /\ written = "idle"
    /\ reparsed = "idle"

\* lines 312-406: the arguments and the line are parsed, the locals set up
Parse ==
    /\ pc = "parse"
    /\ IF RangeEnd(line, intron) <= 0
       THEN pc' = "done" /\ result' = NoData
       ELSE pc' = "loop" /\ result' = result
    /\ UNCHANGED <<line, mode, intron, bed6, overflow_checks, i, st>>
    /\ UNCHANGED <<merge_vars, bed_vars, codec_vars>>

\* lines 407-499: one iteration
Block ==
    /\ pc = "loop"
    /\ i < RangeEnd(line, intron)
    /\ LET s1 == BlockStep(line, mode, intron, overflow_checks, st, i)
       IN  /\ st' = s1
           /\ i' = i + 1
           /\ IF s1.ctl = "panic"
              THEN pc' = "done" /\ result' = Panicked
              ELSE /\ pc' = IF s1.ctl = "break" \/ i + 1 >= RangeEnd(line, intron)
                            THEN "emit" ELSE "loop"
                   /\ result' = result
    /\ UNCHANGED <<line, mode, intron, bed6, overflow_checks>>
    /\ UNCHANGED <<merge_vars, bed_vars, codec_vars>>

\* lines 501-560: the output is assembled
Finish ==
    /\ pc = "emit"
    /\ result' = Emit(line, mode, intron, bed6, st)
    /\ pc' = "done"
    /\ UNCHANGED <<line, mode, intron, bed6, overflow_checks, i, st>>
    /\ UNCHANGED <<merge_vars, bed_vars, codec_vars>>

Next == Parse \/ Block \/ Finish

Spec == Init /\ [][Next]_vars

TypeOK ==
    /\ pc \in {"parse", "loop", "emit", "done"}
    /\ result.kind \in {"Pending", "None", "Panic", "Bed6", "Bed12"}
    /\ pc = "done" <=> result.kind # "Pending"

\* the step-by-step run and the function agree
StepwiseAgrees ==
    pc = "done" => result = bed_to_fraction(line, mode, intron, bed6, overflow_checks)

(***************************************************************************)
(* Reading records as genomic fragments.                                   *)
(***************************************************************************)
\* the absolute [start, end) of every block of a BED12 record
BlocksOf(r) ==
    [k \in 1..Len(r.exon_starts) |->
        <<r.thin_start + r.exon_starts[k],
          r.thin_start + r.exon_starts[k] + r.exon_sizes[k]>>]

NonEmpty(f) == f[1] < f[2]

\* the non-empty parts of the fragments fr that lie in [lo, hi), in order
ClipSeq(fr, lo, hi) ==
    SelectSeq([k \in 1..Len(fr) |-> <<Max(fr[k][1], lo), Min(fr[k][2], hi)>>],
              NonEmpty)

\* the bases a list of fragments covers
Covered(fr) == UNION { fr[k][1]..(fr[k][2] - 1) : k \in 1..Len(fr) }

\* the fragments a result describes: the blocks of a 12-column record, the
\* lines of a 6-column output, none for "no data"
FragsOf(res) ==
    IF res.kind = "Bed12" THEN BlocksOf(res.rec)
    ELSE IF res.kind = "Bed6"
         THEN [k \in 1..Len(res.lines) |-> <<res.lines[k].start, res.lines[k].end>>]
         ELSE <<>>

Returned == pc = "done"

(***************************************************************************)
(* C1.  Mode "all" with intron = false and bed6 = false returns the input  *)
(* record, field for field, for every well-formed line, coding or not.     *)
(***************************************************************************)
C1_AllIsIdentity ==
    (Returned /\ mode = "all" /\ ~intron /\ ~bed6)
        => (result.kind = "Bed12" /\ result.rec = line)

(***************************************************************************)
(* C2.  For a coding line the fragments of mode "cds" and of mode "utr"    *)
(* (intron = false) are pairwise disjoint and together cover exactly the   *)
(* bases of the line's blocks.                                             *)
(***************************************************************************)
PairwiseDisjoint(fr) ==
    \A a, b \in 1..Len(fr) :
        a # b => (fr[a][1]..(fr[a][2] - 1)) \cap (fr[b][1]..(fr[b][2] - 1)) = {}

C2_CdsUtrPartition ==
    (Returned /\ mode = "cds" /\ ~intron /\ Coding(line)) =>
        LET cds == FragsOf(result)
            utr == FragsOf(bed_to_fraction(line, "utr", FALSE, bed6, overflow_checks))
        IN  /\ PairwiseDisjoint(cds \o utr)
            /\ Covered(cds \o utr) = Covered(BlocksOf(line))

(***************************************************************************)
(* C3.  For a coding line, mode "cds" with intron = false retains, in      *)
(* order, exactly the part [max(block.start, thick_start),                 *)
(* min(block.end, thick_end)) of every block that overlaps the thick       *)
(* range, and the output's thin and thick bounds are the input's thick     *)
(* bounds.                                                                 *)
(***************************************************************************)
CdsFragments(r) == ClipSeq(BlocksOf(r), r.thick_start, r.thick_end)

C3_CdsClipping ==
    (Returned /\ mode = "cds" /\ ~intron /\ Coding(line)) =>
        /\ result.kind # "Panic"
        /\ FragsOf(result) = CdsFragments(line)
        /\ result.kind = "None" <=> CdsFragments(line) = <<>>
        /\ result.kind = "Bed12" =>
              /\ result.rec.thin_start = line.thick_start
              /\ result.rec.thick_start = line.thick_start
              /\ result.rec.thin_end = line.thick_end
              /\ result.rec.thick_end = line.thick_end

\* a coding line whose first and last blocks were both trimmed by the call
C3_Witness ==
    /\ Returned /\ mode = "cds" /\ ~intron /\ ~bed6 /\ Coding(line)
    /\ result.kind = "Bed12"
    /\ result.rec.ex_num >= 2
    /\ result.rec.exon_sizes[1] < line.exon_sizes[1]
    /\ result.rec.exon_sizes[result.rec.ex_num] < line.exon_sizes[line.ex_num]
    /\ line.thin_start > 0

(***************************************************************************)
(* C4.  For a coding line, mode "5utr" with intron = false retains exactly *)
(* the block parts below thick_start on the '+' strand and exactly the     *)
(* block parts at or above thick_end on the '-' strand, at their absolute  *)
(* coordinates; mode "3utr" retains the other flank.  So "5utr" on a '+'   *)
(* line and "3utr" on the same line with the strand set to '-' retain the  *)
(* same fragments.                                                         *)
(***************************************************************************)
UpstreamFragments(r) == ClipSeq(BlocksOf(r), r.thin_start, r.thick_start)
DownstreamFragments(r) == ClipSeq(BlocksOf(r), r.thick_end, r.thin_end)

FivePrimeFragments(r) ==
    IF r.strand_line = "+" THEN UpstreamFragments(r) ELSE DownstreamFragments(r)
ThreePrimeFragments(r) ==
    IF r.strand_line = "+" THEN DownstreamFragments(r) ELSE UpstreamFragments(r)

OtherStrand(r) ==
    [r EXCEPT !.strand_line = IF @ = "+" THEN "-" ELSE "+"]

C4_StrandRelativeUtr ==
    (Returned /\ mode \in {"5utr", "3utr"} /\ ~intron /\ Coding(line)) =>
        /\ result.kind # "Panic"
        /\ mode = "5utr" => FragsOf(result) = FivePrimeFragments(line)
        /\ mode = "3utr" => FragsOf(result) = ThreePrimeFragments(line)
        /\ FragsOf(result) =
              FragsOf(bed_to_fraction(OtherStrand(line),
                                      IF mode = "5utr" THEN "3utr" ELSE "5utr",
                                      FALSE, bed6, overflow_checks))

\* a '-' line with two 5'-UTR fragments, the first cut out of a coding block
C4_Witness ==
    /\ Returned /\ mode = "5utr" /\ ~intron /\ ~bed6 /\ Coding(line)
    /\ line.strand_line = "-"
    /\ line.thin_start > 0
    /\ result.kind = "Bed12"
    /\ result.rec.ex_num = 2
    /\ result.rec.exon_sizes[1] < line.exon_sizes[line.ex_num - 1]
    /\ line.thin_start < line.thick_start

(***************************************************************************)
(* C5.  For a non-coding line (thick_start = thick_end, wherever the point *)
(* lies in [thin_start, thin_end]), modes "utr", "5utr" and "3utr" with    *)
(* intron = false retain every block in full at its absolute coordinates.  *)
(***************************************************************************)
C5_NoncodingIsUtr ==
    (Returned /\ mode \in {"utr", "5utr", "3utr"} /\ ~intron /\ ~Coding(line)) =>
        /\ result.kind \in {"Bed12", "Bed6"}
        /\ FragsOf(result) = BlocksOf(line)

(***************************************************************************)
(* C6.  A fraction of zero total length gives "no data", never a record    *)
(* and never a failure: mode "cds" on a non-coding line, and mode "utr" on *)
(* a line whose thick range is its thin range.                             *)
(***************************************************************************)
C6_EmptyFractionIsNoData ==
    /\ (Returned /\ mode = "cds" /\ ~intron /\ ~Coding(line))
          => result.kind = "None"
    /\ (Returned /\ mode = "utr" /\ ~intron
          /\ line.thick_start = line.thin_start /\ line.thick_end = line.thin_end)
          => result.kind = "None"

(***************************************************************************)
(* C7.  With intron = true a line with exactly one block gives "no data"   *)
(* in every mode and for both values of bed6.                              *)
(***************************************************************************)
C7_SingleBlockHasNoIntron ==
    (Returned /\ intron /\ line.ex_num = 1) => result.kind = "None"

\* such a call has returned, for a coding line away from the origin
C7_Witness ==
    /\ Returned /\ intron /\ line.ex_num = 1
    /\ Coding(line) /\ line.thin_start > 0
    /\ line.thin_start < line.thick_start /\ line.thick_end < line.thin_end
    /\ mode = "utr"
    /\ result.kind = "None"

(***************************************************************************)
(* C8.  For a line with n >= 2 blocks, wherever its thick range lies, mode *)
(* "all" with intron = true retains exactly the n - 1 gaps between         *)
(* consecutive blocks, in genomic order.                                   *)
(***************************************************************************)
GapsOf(r) ==
    [k \in 1..(Len(r.exon_starts) - 1) |->
        <<r.thin_start + r.exon_starts[k] + r.exon_sizes[k],
          r.thin_start + r.exon_starts[k + 1]>>]

C8_AllIntrons ==
    (Returned /\ mode = "all" /\ intron /\ line.ex_num >= 2) =>
        /\ result.kind \in {"Bed12", "Bed6"}
        /\ FragsOf(result) = GapsOf(line)

(***************************************************************************)
(* C9.  In every 12-column output the thin_start is the absolute start of  *)
(* the first retained fragment, the thin_end is the absolute end of the    *)
(* last one, and every block offset is its fragment's absolute start minus *)
(* the output thin_start.                                                  *)
(***************************************************************************)
\* the absolute bounds of the k-th retained fragment, as the scan holds them
RetainedStart(k) == st.seq_start + st.upd_block_starts[k]
RetainedEnd(k) == RetainedStart(k) + st.upd_block_sizes[k]

C9_OutputAnchoredAtFirstFragment ==
    (Returned /\ result.kind = "Bed12") =>
        LET n == Len(st.upd_block_starts)
        IN  /\ result.rec.thin_start = RetainedStart(1)
            /\ result.rec.thin_end = RetainedEnd(n)
            /\ result.rec.exon_starts[1] = 0
            /\ \A k \in 1..n :
                  result.rec.exon_starts[k] = RetainedStart(k) - result.rec.thin_start

(***************************************************************************)
(* C10.  With bed6 = true there is one 6-column line per retained          *)
(* fragment, in genomic order, with the absolute coordinates of the        *)
(* fragments of the bed6 = false output; the k-th of m lines carries       *)
(* ordinal k on the '+' strand and m - k + 1 on the '-' strand.            *)
(***************************************************************************)
C10_Bed6Lines ==
    (Returned /\ bed6 /\ result.kind # "Panic") =>
        LET single == bed_to_fraction(line, mode, intron, FALSE, overflow_checks)
            m == Len(FragsOf(result))
        IN  /\ result.kind = "None" <=> single.kind = "None"
            /\ FragsOf(result) = FragsOf(single)
            /\ \A k \in 1..m :
                  result.lines[k].score =
                      IF line.strand_line = "+" THEN k ELSE m - k + 1
            /\ \A k \in 1..(m - 1) :
                  result.lines[k].start <= result.lines[k + 1].start

(***************************************************************************)
(* C11.  For a coding line r on the '+' strand, the "5utr" fraction of r   *)
(* equals the "3utr" fraction of the mirror of r (strand '-', every        *)
(* coordinate reflected), and the "3utr" fraction of r the "5utr" fraction *)
(* of the mirror.                                                          *)
(***************************************************************************)
\* reflection of a coordinate in the middle of the line's own span
Reflect(r, x) == r.thin_start + r.thin_end - x

\* the line read from the other end: strand flipped, blocks in reverse order
Mirror(r) ==
    LET n == Len(r.exon_starts)
        span == r.thin_end - r.thin_start
    IN  [r EXCEPT !.strand_line = IF @ = "+" THEN "-" ELSE "+",
                  !.thick_start = Reflect(r, r.thick_end),
                  !.thick_end = Reflect(r, r.thick_start),
                  !.exon_sizes = [k \in 1..n |-> r.exon_sizes[n + 1 - k]],
                  !.exon_starts =
                      [k \in 1..n |->
                          span - (r.exon_starts[n + 1 - k] + r.exon_sizes[n + 1 - k])]]

\* fragments reflected in the same axis and put back in ascending order
ReflectFrags(r, fr) ==
    [k \in 1..Len(fr) |->
        <<Reflect(r, fr[Len(fr) + 1 - k][2]), Reflect(r, fr[Len(fr) + 1 - k][1])>>]

OppositeUtr(m) == IF m = "5utr" THEN "3utr" ELSE "5utr"

SomeOf(v) == [some |-> TRUE, v |-> v]
NoneOpt == [some |-> FALSE]

Chrom == "chr1"
Names == <<"a", "b", "c", "d", "e">>

\* Interval::from
IntervalFrom(c, s, e, n) == [chrom |-> c, start |-> s, end |-> e, name |-> n]

\* the vectors a caller can pass: any order, any overlaps, start <= end
Spans == {p \in (0..MaxCoord) \X (0..MaxCoord) : p[1] <= p[2]}
IntervalList(f) ==
    [k \in DOMAIN f |-> IntervalFrom(Chrom, f[k][1], f[k][2], Names[k])]

\* CheckedSub on u64 with any result taken for a difference
checked_sub_Wrapping(a, b) == SomeOf(a - b)

\* CheckedSub::checked_sub on u64
checked_sub(a, b) == IF a >= b THEN SomeOf(a - b) ELSE NoneOpt

\* lines 30-39
intersection(start1, end1, start2, end2) ==
    LET min_end == Min(end1, end2)
        max_start == Max(start1, start2)
    IN  checked_sub(min_end, max_start)

\* lines 59-78: the merged interval has neither chrom nor name
merge(inter1, inter2) ==
    IF intersection(inter1.start, inter1.end, inter2.start, inter2.end).some
    THEN SomeOf([start |-> Min(inter1.start, inter2.start),
                 end |-> Max(inter1.end, inter2.end)])
    ELSE NoneOpt

\* Vec::pop, which leaves an empty vector empty
Pop(v) == IF Len(v) = 0 THEN v ELSE SubSeq(v, 1, Len(v) - 1)

\* lines 90-117: one iteration of the loop of merge_multiple; the None arm
\* builds out_interval and drops it
MergeStep(acc, el) ==
    IF intersection(acc.prev_start, acc.prev_end, el.start, el.end).some
    THEN LET ps == Min(acc.prev_start, el.start)
             pe == Max(acc.prev_end, el.end)
         IN  [out_vec |-> Append(Pop(acc.out_vec),
                                 [chrom |-> el.chrom, start |-> ps, end |-> pe]),
              prev_start |-> ps, prev_end |-> pe]
    ELSE [out_vec |-> acc.out_vec, prev_start |-> el.start, prev_end |-> el.end]

RECURSIVE MergeLoop(_, _, _)
MergeLoop(v, k, acc) ==
    IF k > Len(v) THEN acc ELSE MergeLoop(v, k + 1, MergeStep(acc, v[k]))

\* lines 82-119
merge_multiple(v) ==
    MergeLoop(v, 1, [out_vec |-> <<>>, prev_start |-> 0, prev_end |-> 0]).out_vec

\* the comparator of lines 132-136 and 162-166
Before(a, b) == IF a.start = b.start THEN a.end < b.end ELSE a.start < b.start

\* slice::sort_by, a stable sort
RECURSIVE InsertSorted(_, _)
InsertSorted(sorted, x) ==
    IF Len(sorted) = 0 THEN <<x>>
    ELSE IF Before(x, sorted[Len(sorted)])
         THEN Append(InsertSorted(SubSeq(sorted, 1, Len(sorted) - 1), x),
                     sorted[Len(sorted)])
         ELSE Append(sorted, x)

RECURSIVE SortLoop(_, _, _)
SortLoop(v, k, sorted) ==
    IF k > Len(v) THEN sorted ELSE SortLoop(v, k + 1, InsertSorted(sorted, v[k]))

sort_by(v) == SortLoop(v, 1, <<>>)

\* format!("{}:{}-{}", chrom, start, end), kept as its three parts
SpanName(c, s, e) == <<c, ":", s, "-", e>>

\* line 143: the end of the last interval in sorted order
SpanEnd(sorted) == sorted[Len(sorted)].end

\* lines 127-146; indexing an empty vector panics
total_span(v) ==
    IF Len(v) = 0 THEN Panicked
    ELSE LET sorted == sort_by(v)
             start == sorted[1].start
             end == SpanEnd(sorted)
         IN  [kind |-> "Ok",
              interval |-> IntervalFrom(sorted[1].chrom, start, end,
                                        SpanName(sorted[1].chrom, start, end))]

\* Vec::contains
Contains(v, x) == \E k \in 1..Len(v) : v[k] = x

\* lines 232-233: push unless already there
PushNew(v, x) == IF Contains(v, x) THEN v ELSE Append(v, x)

\* line 203: entry(p).or_insert(Vec::new()).push(nm)
PushName(m, p, nm) ==
    IF p \in DOMAIN m THEN [m EXCEPT ![p] = Append(@, nm)] ELSE m @@ (p :> <<nm>>)

\* lines 237-242, 251-256, 260-265: entry(p).and_modify(push unless
\* contained).or_insert(vec![nm])
AddName(m, p, nm) ==
    IF p \in DOMAIN m THEN [m EXCEPT ![p] = PushNew(@, nm)] ELSE m @@ (p :> <<nm>>)

\* lines 234-243: the next interval is attributed to the known points it covers
RECURSIVE PointsPass(_, _, _, _)
PointsPass(points, k, nxt, m) ==
    IF k > Len(points) THEN m
    ELSE PointsPass(points, k + 1, nxt,
                    IF points[k] < nxt.start \/ points[k] >= nxt.end
                    THEN m ELSE AddName(m, points[k], nxt.name))

\* lines 246-267: the intervals curr..next are attributed to the two ends of
\* the next interval
RECURSIVE CoverPass(_, _, _, _)
CoverPass(v, k, next, m) ==
    IF k > next THEN m
    ELSE LET i_end == v[k].end
             m1 == IF i_end > v[next].start
                   THEN AddName(m, v[next].start, v[k].name) ELSE m
             m2 == IF i_end > v[next].end
                   THEN AddName(m1, v[next].end, v[k].name) ELSE m1
         IN  CoverPass(v, k + 1, next, m2)

\* lines 205-269: the inner loop, extending the cluster that starts at curr
RECURSIVE ClusterLoop(_, _, _, _)
ClusterLoop(v, curr, next, c) ==
    IF next > Len(v) \/ v[next].start > c.curr_end THEN [c EXCEPT !.next = next]
    ELSE LET points == PushNew(PushNew(c.start_points, v[next].start), v[next].end)
             m1 == PointsPass(points, 1, v[next], c.start2trs)
             m2 == CoverPass(v, curr, next, m1)
         IN  ClusterLoop(v, curr, next + 1,
                         [c EXCEPT !.curr_end = Max(c.curr_end, v[next].end),
                                   !.start_points = points,
                                   !.start2trs = m2])

\* Vec<u64>::sort
RECURSIVE InsertNum(_, _)
InsertNum(sorted, x) ==
    IF Len(sorted) = 0 THEN <<x>>
    ELSE IF x < sorted[Len(sorted)]
         THEN Append(InsertNum(SubSeq(sorted, 1, Len(sorted) - 1), x),
                     sorted[Len(sorted)])
         ELSE Append(sorted, x)

RECURSIVE SortNums(_, _, _)
SortNums(v, k, sorted) ==
    IF k > Len(v) THEN sorted ELSE SortNums(v, k + 1, InsertNum(sorted, v[k]))

\* lines 272-292: one elementary interval per pair of neighbouring points;
\* ordinal names are kept as numbers
RECURSIVE Discretize(_, _, _, _, _)
Discretize(points, k, m, chrom, acc) ==
    IF acc.kind = "Panic" \/ k > Len(points) THEN acc
    ELSE IF points[k - 1] \notin DOMAIN m THEN Panicked
    ELSE Discretize(points, k + 1, m, chrom,
            [kind |-> "Ok",
             interval_vec |-> Append(acc.interval_vec,
                 IntervalFrom(chrom, points[k - 1], points[k], acc.curr_interval)),
             out_map |-> (acc.curr_interval :> m[points[k - 1]]) @@ acc.out_map,
             curr_interval |-> acc.curr_interval + 1])

\* lines 180-298: the outer loop, one cluster per iteration
RECURSIVE DiscreteLoop(_, _, _, _)
DiscreteLoop(v, curr, next, acc) ==
    IF acc.kind = "Panic" \/ curr > Len(v) THEN acc
    ELSE LET c == ClusterLoop(v, curr, next,
                      [curr_end |-> v[curr].end,
                       start_points |-> <<v[curr].start, v[curr].end>>,
                       start2trs |-> PushName(<<>>, v[curr].start, v[curr].name),
                       next |-> next])
             points == SortNums(c.start_points, 1, <<>>)
         IN  DiscreteLoop(v, c.next, c.next,
                          Discretize(points, 2, c.start2trs, v[1].chrom, acc))

\* lines 152-300
discrete_interval_map(v) ==
    IF Len(v) = 0
    THEN [kind |-> "Ok", interval_vec |-> <<>>, out_map |-> <<>>]
    ELSE LET r == DiscreteLoop(sort_by(v), 1, 2,
                     [kind |-> "Ok", interval_vec |-> <<>>, out_map |-> <<>>,
                      curr_interval |-> 0])
         IN  IF r.kind = "Panic" THEN Panicked
             ELSE [kind |-> "Ok", interval_vec |-> r.interval_vec,
                   out_map |-> r.out_map]

(***************************************************************************)
(* Calls into the interval algebra.  Each action is one call on the vector *)
(* chosen initially.                                                       *)
(***************************************************************************)
InitMerge ==
    /\ \E n \in 0..MaxIntervals : \E f \in [1..n -> Spans] :
          intervals = IntervalList(f)
    /\ merge_fn = "none"
    /\ merge_ret = "none"
    /\ line = "idle" /\ mode = "idle" /\ intron = FALSE /\ bed6 = FALSE
    /\ overflow_checks = FALSE /\ pc = "idle" /\ i = 0 /\ st = "idle"
    /\ result = "idle"
    /\ bed = "idle" /\ bed_call = "idle" /\ bed_ret = "idle"
    /\ text = "idle" /\ columns = 0 /\ entry = "idle" /\ written = "idle"
    /\ reparsed = "idle"

\* intersection on the bounds of the first two intervals, as merge calls it
Intersection ==
    /\ merge_fn = "none" /\ Len(intervals) >= 2
    /\ merge_fn' = "intersection"
    /\ merge_ret' = intersection(intervals[1].start, intervals[1].end,
                                 intervals[2].start, intervals[2].end)
    /\ UNCHANGED <<intervals, extract_vars, bed_vars, codec_vars>>

Merge ==
    /\ merge_fn = "none" /\ Len(intervals) >= 2
    /\ merge_fn' = "merge"
    /\ merge_ret' = merge(intervals[1], intervals[2])
    /\ UNCHANGED <<intervals, extract_vars, bed_vars, codec_vars>>

MergeMultiple ==
    /\ merge_fn = "none"
    /\ merge_fn' = "merge_multiple"
    /\ merge_ret' = merge_multiple(intervals)
    /\ UNCHANGED <<intervals, extract_vars, bed_vars, codec_vars>>

\* the vector is sorted in place before it is indexed
TotalSpan ==
    /\ merge_fn = "none"
    /\ merge_fn' = "total_span"
    /\ merge_ret' = total_span(intervals)
    /\ intervals' = sort_by(intervals)
    /\ UNCHANGED <<extract_vars, bed_vars, codec_vars>>

\* the vector is sorted in place unless it is empty
DiscreteIntervalMap ==
    /\ merge_fn = "none"
    /\ merge_fn' = "discrete_interval_map"
    /\ merge_ret' = discrete_interval_map(intervals)
    /\ intervals' = sort_by(intervals)
    /\ UNCHANGED <<extract_vars, bed_vars, codec_vars>>

NextMerge ==
    Intersection \/ Merge \/ MergeMultiple \/ TotalSpan \/ DiscreteIntervalMap

SpecMerge == InitMerge /\ [][NextMerge]_vars

(***************************************************************************)
(* Reading the results of the interval algebra.                            *)
(***************************************************************************)
\* the positions covered by the half-open spans of a vector of intervals
SpanUnion(v) == UNION {v[k].start .. (v[k].end - 1) : k \in 1..Len(v)}

\* the [start, end) spans of a vector, in order
SpansOf(v) == [k \in 1..Len(v) |-> <<v[k].start, v[k].end>>]

\* sorted by (start, end)
IsSorted(v) == \A k \in 1..(Len(v) - 1) : ~Before(v[k + 1], v[k])

\* two intervals share a base or touch
OverlapOrTouch(a, b) == Min(a.end, b.end) >= Max(a.start, b.start)

(***************************************************************************)
(* C12.  For a vector sorted by (start, end), merge_multiple represents    *)
(* every input interval: the output spans cover exactly what the input     *)
(* spans cover, and an interval that neither overlaps nor touches another  *)
(* one (the first interval included) is an output interval of its own.     *)
(***************************************************************************)
C12_EveryIntervalRepresented ==
    (merge_fn = "merge_multiple" /\ IsSorted(intervals)) =>
        /\ SpanUnion(merge_ret) = SpanUnion(intervals)
        /\ \A k \in 1..Len(intervals) :
              (\A j \in 1..Len(intervals) :
                    j # k => ~OverlapOrTouch(intervals[j], intervals[k]))
              => \E o \in 1..Len(merge_ret) :
                    /\ merge_ret[o].start = intervals[k].start
                    /\ merge_ret[o].end = intervals[k].end

(***************************************************************************)
(* C13.  On a sorted vector of pairwise non-overlapping, non-touching      *)
(* intervals merge_multiple returns the same spans in the same order, and  *)
(* merging its own output again returns that output.                       *)
(***************************************************************************)
C13_MergeIsIdentityOnDisjoint ==
    (/\ merge_fn = "merge_multiple" /\ IsSorted(intervals)
     /\ \A j, k \in 1..Len(intervals) :
           j < k => ~OverlapOrTouch(intervals[j], intervals[k])) =>
        /\ SpansOf(merge_ret) = SpansOf(intervals)
        /\ SpansOf(merge_multiple(merge_ret)) = SpansOf(merge_ret)

(***************************************************************************)
(* C14.  For a non-empty vector of named intervals with start <= end, the  *)
(* elementary intervals of discrete_interval_map cover exactly what the    *)
(* input spans cover, and the contributor list of every elementary         *)
(* interval lying inside an input interval holds that interval's name.     *)
(***************************************************************************)
C14_DiscretizationCoverage ==
    (merge_fn = "discrete_interval_map" /\ Len(intervals) > 0) =>
        /\ merge_ret.kind = "Ok"
        /\ SpanUnion(merge_ret.interval_vec) = SpanUnion(intervals)
        /\ \A k \in 1..Len(intervals) : \A o \in 1..Len(merge_ret.interval_vec) :
              LET E == merge_ret.interval_vec[o]
              IN  (intervals[k].start <= E.start /\ E.end <= intervals[k].end) =>
                      /\ E.name \in DOMAIN merge_ret.out_map
                      /\ Contains(merge_ret.out_map[E.name], intervals[k].name)

C16_TotalSpanIsBoundingSpan ==
    (merge_fn = "total_span" /\ Len(intervals) > 0) =>
        /\ merge_ret.kind = "Ok"
        /\ \A k \in 1..Len(intervals) :
              /\ merge_ret.interval.start <= intervals[k].start
              /\ merge_ret.interval.end >= intervals[k].end
        /\ \E k \in 1..Len(intervals) : merge_ret.interval.start = intervals[k].start
        /\ \E k \in 1..Len(intervals) : merge_ret.interval.end = intervals[k].end
        /\ merge_ret.interval.chrom = Chrom
        /\ merge_ret.interval.name =
              SpanName(Chrom, merge_ret.interval.start, merge_ret.interval.end)

(***************************************************************************)
(* BedEntry and its methods clip_by, to_cds and graft                      *)
(* (src/src/structs/structs.rs).                                           *)
(*                                                                         *)
(* A BedEntry is a record of the struct's thirteen fields.  chrom and rgb  *)
(* keep their Option (SomeOf / NoneOpt); the other fields are defined in   *)
(* every record the model handles and are kept as plain values.  A method  *)
(* is an operator from the receiver and the arguments to the receiver      *)
(* after the call and the returned value.                                  *)
(***************************************************************************)
\* lines 212-232
bed12(chrom, start, end, name, score, strand, thick_start, thick_end, rgb, exon_num, exon_sizes, exon_starts) ==
    [format |-> SomeOf(12), chrom |-> SomeOf(chrom), thin_start |-> start,
     thin_end |-> end, name |-> name, score |-> score, strand |-> strand,
     thick_start |-> thick_start, thick_end |-> thick_end, rgb |-> SomeOf(rgb),
     exon_num |-> exon_num, exon_sizes |-> exon_sizes, exon_starts |-> exon_starts]

\* lines 191-210: nine columns, no blocks
bed9(chrom, start, end, name, score, strand, thick_start, thick_end, rgb) ==
    [format |-> SomeOf(9), chrom |-> SomeOf(chrom), thin_start |-> start,
     thin_end |-> end, name |-> name, score |-> score, strand |-> strand,
     thick_start |-> thick_start, thick_end |-> thick_end, rgb |-> SomeOf(rgb),
     exon_num |-> NoneOpt, exon_sizes |-> NoneOpt, exon_starts |-> NoneOpt]

\* lines 59-75: BedEntry::empty(), every field undefined
empty ==
    [format |-> NoneOpt, chrom |-> NoneOpt, thin_start |-> NoneOpt,
     thin_end |-> NoneOpt, name |-> NoneOpt, score |-> NoneOpt, strand |-> NoneOpt,
     thick_start |-> NoneOpt, thick_end |-> NoneOpt, rgb |-> NoneOpt,
     exon_num |-> NoneOpt, exon_sizes |-> NoneOpt, exon_starts |-> NoneOpt]

\* lines 234-237: BedEntry::format(), 0 for an undefined format
FormatOf(self) == IF self.format.some THEN self.format.v ELSE 0

\* block layouts with introns wide enough to take an addition
ExonLayouts ==
    UNION { { [sizes |-> sz, starts |-> StartsOf(sz, g, n)] :
                sz \in [1..n -> 1..MaxExonSize], g \in [1..(n - 1) -> 1..MaxIntron] } :
            n \in 1..MaxExons }

\* the receivers: well-formed BED12 records starting at Lead, with UTRs of up
\* to MaxUtr bases
Receiver(l, utr5, utr3) ==
    bed12(Chrom, Lead, Lead + SpanOf(l), "tx", "0", TRUE,
          Lead + utr5, Lead + SpanOf(l) - utr3, "0",
          Len(l.sizes), l.sizes, l.starts)

\* the coordinates an argument can take: up to Lead bases past either end
ArgCoords(self) ==
    IF self.format.some THEN 0..(self.thin_end + Lead) ELSE 0..Lead

\* the Option<u64> arguments of clip_by
OptCoords(self) == {NoneOpt} \cup {SomeOf(x) : x \in ArgCoords(self)}

\* lines 390-412: one iteration of the loop over the blocks
ClipStep(self, c, k) ==
    LET ex_start == self.exon_starts[k] + self.thin_start
        ex_end == self.exon_sizes[k] + ex_start
        new_ex_start == Max(c.new_thin_start, ex_start)
        moved == new_ex_start > c.new_thin_start
        c1 == IF moved
              THEN [c EXCEPT !.new_thin_start = new_ex_start,
                             !.new_thick_start = Max(new_ex_start, c.new_thick_start)]
              ELSE c
        sub == checked_sub(Min(ex_end, c.new_thin_end), new_ex_start)
        new_ex_end == new_ex_start + sub.v
        c2 == IF new_ex_end < c1.new_thin_end
              THEN [c1 EXCEPT !.new_thin_end = new_ex_end,
                              !.new_thick_end = Min(new_ex_end, c1.new_thick_end)]
              ELSE c1
    IN  IF ex_start > c.new_thin_end THEN [c EXCEPT !.ctl = "break"]
        ELSE IF ex_end < c.new_thin_start THEN c
        ELSE IF ~sub.some \/ sub.v = 0 THEN c1
        ELSE [c2 EXCEPT !.sizes = Append(@, sub.v),
                        !.starts = Append(@, new_ex_start - c2.new_thin_start),
                        !.ex_counter = @ + 1]

RECURSIVE ClipLoop(_, _, _)
ClipLoop(self, c, k) ==
    IF k > Len(self.exon_sizes) \/ c.ctl = "break" THEN c
    ELSE ClipLoop(self, ClipStep(self, c, k), k + 1)

\* lines 417-430: the receiver with the clipped values assigned
ClipAssigned(self, c) ==
    [self EXCEPT !.thin_start = c.new_thin_start,
                 !.thin_end = c.new_thin_end,
                 !.thick_start = c.new_thick_start,
                 !.thick_end = c.new_thick_end,
                 !.exon_num = c.ex_counter,
                 !.exon_sizes = c.sizes,
                 !.exon_starts = c.starts]

\* lines 433-458: a new record; BedEntry::empty() leaves rgb undefined and
\* nothing is copied into it
ClipCopy(self, c) ==
    [format |-> self.format, chrom |-> self.chrom,
     thin_start |-> c.new_thin_start, thin_end |-> c.new_thin_end,
     name |-> self.name, score |-> self.score, strand |-> self.strand,
     thick_start |-> c.new_thick_start, thick_end |-> c.new_thick_end,
     rgb |-> NoneOpt,
     exon_num |-> c.ex_counter, exon_sizes |-> c.sizes, exon_starts |-> c.starts]

\* lines 417-459 with the assignments made before the test of inplace
ClipFinish_AssignsFirst(self, c, inplace) ==
    [self |-> ClipAssigned(self, c),
     ret |-> IF inplace THEN NoneOpt ELSE SomeOf(ClipCopy(self, c))]

\* lines 417-459: assign and return nothing, or leave the receiver and return
\* a new record
ClipFinish(self, c, inplace) ==
    IF inplace THEN [self |-> ClipAssigned(self, c), ret |-> NoneOpt]
    ELSE [self |-> self, ret |-> SomeOf(ClipCopy(self, c))]

\* lines 356-461
clip_by(self, start, end, inplace) ==
    IF ~self.chrom.some THEN [self |-> self, ret |-> NoneOpt]
    ELSE
    LET new_thin_start == IF start.some THEN Max(self.thin_start, start.v)
                          ELSE self.thin_start
        new_thin_end == IF end.some THEN Min(self.thin_end, end.v) ELSE self.thin_end
        c == ClipLoop(self,
                      [new_thin_start |-> new_thin_start,
                       new_thin_end |-> new_thin_end,
                       new_thick_start |-> Max(self.thick_start, new_thin_start),
                       new_thick_end |-> Min(self.thick_end, new_thin_end),
                       sizes |-> <<>>, starts |-> <<>>, ex_counter |-> 0,
                       ctl |-> "next"], 1)
    IN  ClipFinish(self, c, inplace)

\* lines 463-466
to_cds(self, inplace) ==
    IF ~self.format.some THEN [self |-> self, ret |-> Panicked]
    ELSE IF self.format.v < 8 THEN [self |-> self, ret |-> NoneOpt]
    ELSE clip_by(self, SomeOf(self.thick_start), SomeOf(self.thick_end), inplace)

\* the outcome of a u64 subtraction a - b that underflows: a panic with
\* overflow checks, the wrapped difference without
Underflows(a, b) == a < b

\* lines 557-589: one iteration of the loop of the upstream branch
UpstreamStep(u, k, thin_start, thick_start, graft_start, updated_start, allow_overlaps, oc) ==
    LET exon_start == thin_start + u.exon_starts[k]
        exon_end == exon_start + u.exon_sizes[k]
        overlap == exon_start <= graft_start /\ graft_start <= exon_end
        u1 == [u EXCEPT !.to_merge = @ \/ overlap]
        done == [u1 EXCEPT !.grafted = TRUE,
                           !.ctl = IF updated_start THEN "next" ELSE "break"]
    IN  IF overlap /\ ~allow_overlaps THEN [u EXCEPT !.ctl = "none"]
        ELSE IF exon_end > thick_start /\ ~u.grafted
        THEN IF exon_start < thick_start
             THEN IF graft_start < exon_start
                  THEN IF oc /\ k # 1 /\ Underflows(graft_start, thin_start)
                       THEN [u EXCEPT !.ctl = "panic"]
                       ELSE [done EXCEPT
                               !.exon_sizes[k] = @ + (exon_start - graft_start),
                               !.exon_starts[k] =
                                   IF k = 1 THEN @ ELSE graft_start - thin_start,
                               !.graft_len = exon_start - graft_start]
                  ELSE done
             ELSE IF oc /\ (\/ k # 1 /\ Underflows(Min(graft_start, thick_start),
                                                    thin_start)
                            \/ Underflows(exon_start, graft_start))
                  THEN [u EXCEPT !.ctl = "panic"]
                  ELSE [done EXCEPT
                          !.exon_starts[k] =
                              IF k = 1 THEN 0
                              ELSE Min(graft_start, thick_start) - thin_start,
                          !.exon_sizes[k] = @ + (exon_start - graft_start),
                          !.graft_len = exon_start - Min(graft_start, exon_start)]
        ELSE IF updated_start
             THEN [u1 EXCEPT !.exon_starts[k] = @ + u.graft_len]
             ELSE u1

RECURSIVE UpstreamLoop(_, _, _, _, _, _, _, _)
UpstreamLoop(u, k, thin_start, thick_start, graft_start, updated_start, allow_overlaps, oc) ==
    IF k > Len(u.exon_sizes) \/ u.ctl # "next" THEN u
    ELSE UpstreamLoop(UpstreamStep(u, k, thin_start, thick_start, graft_start,
                                   updated_start, allow_overlaps, oc),
                      k + 1, thin_start, thick_start, graft_start, updated_start,
                      allow_overlaps, oc)

\* lines 541-590: append_upstream
GraftUpstream(self, g, allow_overlaps, coding, oc) ==
    IF coding /\ self.thin_start # self.thick_start THEN Panicked
    ELSE IF ~coding /\ g.start > self.thick_start THEN NoData
    ELSE LET thick_start == IF coding THEN g.start ELSE self.thick_start
             u == UpstreamLoop([exon_sizes |-> self.exon_sizes,
                                exon_starts |-> self.exon_starts,
                                graft_len |-> g.end - g.start,
                                grafted |-> FALSE, to_merge |-> FALSE,
                                ctl |-> "next"],
                               1, self.thin_start, thick_start, g.start,
                               g.start < self.thin_start, allow_overlaps, oc)
         IN  IF u.ctl = "panic" THEN Panicked
             ELSE IF u.ctl = "none" THEN NoData
             ELSE [kind |-> "Ok", to_merge |-> u.to_merge,
                   thin_start |-> Min(self.thin_start, g.start),
                   thin_end |-> self.thin_end,
                   thick_start |-> thick_start, thick_end |-> self.thick_end,
                   exon_num |-> self.exon_num,
                   exon_sizes |-> u.exon_sizes, exon_starts |-> u.exon_starts]

\* lines 604-623: one iteration of the loop of the downstream branch, which
\* runs from the last block to the first
DownstreamStep(d, k, self, thick_end, g, allow_overlaps, oc) ==
    LET exon_start == self.thin_start + self.exon_starts[k]
        exon_end == exon_start + d.exon_sizes[k]
        overlap == exon_start <= g.end /\ g.end <= exon_end
        d1 == [d EXCEPT !.to_merge = @ \/ overlap]
    IN  IF overlap /\ ~allow_overlaps THEN [d EXCEPT !.ctl = "none"]
        ELSE IF exon_start < thick_end
        THEN IF exon_end > thick_end
             THEN IF g.end > self.thin_end
                  THEN IF oc /\ Underflows(g.end, Max(thick_end, g.start))
                       THEN [d EXCEPT !.ctl = "panic"]
                       ELSE [d1 EXCEPT
                               !.exon_sizes[k] = @ + (g.end - Max(thick_end, g.start)),
                               !.ctl = "break"]
                  ELSE [d1 EXCEPT !.ctl = "break"]
             ELSE IF oc /\ Underflows(g.end, thick_end)
                  THEN [d EXCEPT !.ctl = "panic"]
                  ELSE [d1 EXCEPT !.exon_sizes[k] = @ + (g.end - thick_end),
                                  !.ctl = "break"]
        ELSE d1

RECURSIVE DownstreamLoop(_, _, _, _, _, _, _)
DownstreamLoop(d, k, self, thick_end, g, allow_overlaps, oc) ==
    IF k < 1 \/ d.ctl # "next" THEN d
    ELSE DownstreamLoop(DownstreamStep(d, k, self, thick_end, g, allow_overlaps, oc),
                        k - 1, self, thick_end, g, allow_overlaps, oc)

\* lines 591-625: append_downstream
GraftDownstream(self, g, allow_overlaps, coding, oc) ==
    IF coding /\ self.thin_end # self.thick_end THEN Panicked
    ELSE IF ~coding /\ g.end < self.thick_end THEN NoData
    ELSE LET thick_end == IF coding THEN g.end ELSE self.thick_end
             d == DownstreamLoop([exon_sizes |-> self.exon_sizes,
                                  to_merge |-> FALSE, ctl |-> "next"],
                                 Len(self.exon_sizes), self, thick_end, g,
                                 allow_overlaps, oc)
         IN  IF d.ctl = "panic" THEN Panicked
             ELSE IF d.ctl = "none" THEN NoData
             ELSE [kind |-> "Ok", to_merge |-> d.to_merge,
                   thin_start |-> self.thin_start,
                   thin_end |-> Max(g.end, self.thin_end),
                   thick_start |-> self.thick_start, thick_end |-> thick_end,
                   exon_num |-> self.exon_num,
                   exon_sizes |-> d.exon_sizes, exon_starts |-> self.exon_starts]

\* lines 311-354: the blocks of a BED12 record, by their coordinates
to_blocks(self) ==
    [k \in 1..self.exon_num |->
        [chrom |-> self.chrom.v,
         start |-> self.thin_start + self.exon_starts[k],
         end |-> self.thin_start + self.exon_starts[k] + self.exon_sizes[k]]]

\* lines 77-96
from_interval(g) == [chrom |-> g.chrom.v, start |-> g.start, end |-> g.end]

\* lines 629-672: the blocks are rebuilt from the merge of the receiver's
\* blocks and the addition
GraftMerge(self, g, l, allow_overlaps, coding) ==
    IF ~self.chrom.some \/ ~g.chrom.some THEN Panicked
    ELSE
    LET blocks == Append(to_blocks(self), from_interval(g))
        unmerged_block_num == Len(blocks)
        merged_blocks == merge_multiple(sort_by(blocks))
        thin_start == Min(l.thin_start, g.start)
    IN  IF Len(merged_blocks) < unmerged_block_num /\ ~allow_overlaps THEN NoData
        ELSE [kind |-> "Ok", to_merge |-> TRUE,
              thin_start |-> thin_start,
              thin_end |-> Max(l.thin_end, g.end),
              thick_start |-> IF coding THEN Min(l.thick_start, g.start)
                              ELSE l.thick_start,
              thick_end |-> IF coding THEN Max(l.thick_end, g.end)
                            ELSE l.thick_end,
              exon_num |-> Len(merged_blocks),
              exon_sizes |-> [k \in 1..Len(merged_blocks) |->
                                 merged_blocks[k].end - merged_blocks[k].start],
              exon_starts |-> [k \in 1..Len(merged_blocks) |->
                                  merged_blocks[k].start - thin_start]]

\* lines 496-628: the locals when neither branch is taken
GraftLocals(self) ==
    [kind |-> "Ok", to_merge |-> TRUE,
     thin_start |-> self.thin_start, thin_end |-> self.thin_end,
     thick_start |-> self.thick_start, thick_end |-> self.thick_end,
     exon_num |-> self.exon_num,
     exon_sizes |-> self.exon_sizes, exon_starts |-> self.exon_starts]

\* the chromosome check with the test for undefined chromosomes left out
ChromMismatch_DefinedOnly(self, g) ==
    self.chrom.some /\ g.chrom.some /\ self.chrom.v # g.chrom.v

\* lines 485-494: the chromosomes differ or either is undefined
ChromMismatch(self, g) ==
    ~self.chrom.some \/ ~g.chrom.some \/ self.chrom.v # g.chrom.v

\* lines 468-699; the in-place arm of lines 674-683 assigns thick_start twice
\* and thick_end never
graft(self, g, inplace, chrom_compatible, allow_overlaps, coding, append_upstream, append_downstream, oc) ==
    IF append_upstream /\ append_downstream THEN [self |-> self, ret |-> Panicked]
    ELSE IF FormatOf(self) # 12 THEN [self |-> self, ret |-> Panicked]
    ELSE IF chrom_compatible /\ ChromMismatch(self, g)
    THEN [self |-> self, ret |-> Panicked]
    ELSE IF g.end < g.start THEN [self |-> self, ret |-> Panicked]
    ELSE
    LET branch == IF append_upstream
                  THEN GraftUpstream(self, g, allow_overlaps, coding, oc)
                  ELSE IF append_downstream
                  THEN GraftDownstream(self, g, allow_overlaps, coding, oc)
                  ELSE GraftLocals(self)
        l == IF branch.kind = "Ok" /\ branch.to_merge
             THEN GraftMerge(self, g, branch, allow_overlaps, coding)
             ELSE branch
    IN  IF l.kind = "Panic" THEN [self |-> self, ret |-> Panicked]
        ELSE IF l.kind = "None" THEN [self |-> self, ret |-> NoneOpt]
        ELSE IF inplace
        THEN [self |-> [self EXCEPT !.thin_start = l.thin_start,
                                    !.thin_end = l.thin_end,
                                    !.thick_start = l.thick_start,
                                    !.exon_num = l.exon_num,
                                    !.exon_sizes = l.exon_sizes,
                                    !.exon_starts = l.exon_starts],
              ret |-> NoneOpt]
        ELSE [self |-> self,
              ret |-> SomeOf([format |-> SomeOf(12), chrom |-> self.chrom,
                              thin_start |-> l.thin_start, thin_end |-> l.thin_end,
                              name |-> self.name, score |-> self.score,
                              strand |-> self.strand,
                              thick_start |-> l.thick_start,
                              thick_end |-> l.thick_end,
                              rgb |-> self.rgb,
                              exon_num |-> l.exon_num,
                              exon_sizes |-> l.exon_sizes,
                              exon_starts |-> l.exon_starts])]

(***************************************************************************)
(* Calls of the BedEntry methods.  Each action is one call on the receiver *)
(* chosen initially, with arguments chosen by the caller.                  *)
(***************************************************************************)
InitEntry ==
    /\ \E l \in {x \in ExonLayouts : SpanOf(x) <= MaxExonSpan} :
       \E utr5, utr3 \in 0..MaxUtr :
          /\ utr5 + utr3 <= SpanOf(l)
          /\ bed = Receiver(l, utr5, utr3)
    /\ bed_call = [fn |-> "none"]
    /\ bed_ret = "none"
    /\ overflow_checks \in BOOLEAN
    /\ line = "idle" /\ mode = "idle" /\ intron = FALSE /\ bed6 = FALSE
    /\ pc = "idle" /\ i = 0 /\ st = "idle" /\ result = "idle"
    /\ intervals = <<>> /\ merge_fn = "idle" /\ merge_ret = "idle"
    /\ text = "idle" /\ columns = 0 /\ entry = "idle" /\ written = "idle"
    /\ reparsed = "idle"

ClipBy ==
    /\ bed_call.fn = "none"
    /\ \E start \in OptCoords(bed), end \in OptCoords(bed), inplace \in BOOLEAN :
          LET r == clip_by(bed, start, end, inplace)
          IN  /\ bed_call' = [fn |-> "clip_by", before |-> bed, start |-> start,
                              end |-> end, inplace |-> inplace]
              /\ bed' = r.self
              /\ bed_ret' = r.ret
    /\ UNCHANGED <<extract_vars, merge_vars, codec_vars>>

ToCds ==
    /\ bed_call.fn = "none"
    /\ \E inplace \in BOOLEAN :
          LET r == to_cds(bed, inplace)
          IN  /\ bed_call' = [fn |-> "to_cds", before |-> bed, inplace |-> inplace]
              /\ bed' = r.self
              /\ bed_ret' = r.ret
    /\ UNCHANGED <<extract_vars, merge_vars, codec_vars>>

\* a call of graft with an addition of at least one base whose chrom is c
GraftCall(c) ==
    \E s \in ArgCoords(bed), e \in ArgCoords(bed),
       inplace \in BOOLEAN, chrom_compatible \in BOOLEAN,
       allow_overlaps \in BOOLEAN, coding \in BOOLEAN,
       append_upstream \in BOOLEAN, append_downstream \in BOOLEAN :
       /\ s < e
       /\ LET g == IntervalFrom(c, s, e, "graft")
              r == graft(bed, g, inplace, chrom_compatible, allow_overlaps,
                         coding, append_upstream, append_downstream,
                         overflow_checks)
          IN  /\ bed_call' = [fn |-> "graft", before |-> bed, graft |-> g,
                              inplace |-> inplace,
                              chrom_compatible |-> chrom_compatible,
                              allow_overlaps |-> allow_overlaps,
                              coding |-> coding,
                              append_upstream |-> append_upstream,
                              append_downstream |-> append_downstream]
              /\ bed' = r.self
              /\ bed_ret' = r.ret

\* the addition is on the receiver's chrom
Graft ==
    /\ bed_call.fn = "none"
    /\ GraftCall(SomeOf(Chrom))
    /\ UNCHANGED <<extract_vars, merge_vars, codec_vars>>

NextEntry == ClipBy \/ ToCds \/ Graft

SpecEntry == InitEntry /\ [][NextEntry]_vars

(***************************************************************************)
(* graft on any record: BED12 receivers, nine-column records and the empty *)
(* record, with an addition on the receiver's chrom, on another chrom or   *)
(* with no chrom.                                                          *)
(***************************************************************************)
OtherChrom == "chr2"

\* lines 191-210: the nine-column record over the span of a receiver
Receiver9(l, utr5, utr3) ==
    bed9(Chrom, Lead, Lead + SpanOf(l), "tx", "0", TRUE,
         Lead + utr5, Lead + SpanOf(l) - utr3, "0")

InitGraftAny ==
    /\ \E l \in {x \in ExonLayouts : SpanOf(x) <= MaxAnySpan} :
       \E utr5, utr3 \in 0..MaxUtr :
          /\ utr5 + utr3 <= SpanOf(l)
          /\ \/ bed = Receiver(l, utr5, utr3)
             \/ bed = Receiver9(l, utr5, utr3)
             \/ bed = empty
    /\ bed_call = [fn |-> "none"]
    /\ bed_ret = "none"
    /\ overflow_checks \in BOOLEAN
    /\ line = "idle" /\ mode = "idle" /\ intron = FALSE /\ bed6 = FALSE
    /\ pc = "idle" /\ i = 0 /\ st = "idle" /\ result = "idle"
    /\ intervals = <<>> /\ merge_fn = "idle" /\ merge_ret = "idle"
    /\ text = "idle" /\ columns = 0 /\ entry = "idle" /\ written = "idle"
    /\ reparsed = "idle"

\* the addition is on another chrom, or its chrom is undefined
GraftForeign ==
    /\ bed_call.fn = "none"
    /\ \E c \in {SomeOf(OtherChrom), NoneOpt} : GraftCall(c)
    /\ UNCHANGED <<extract_vars, merge_vars, codec_vars>>

NextGraftAny == Graft \/ GraftForeign

SpecGraftAny == InitGraftAny /\ [][NextGraftAny]_vars

(***************************************************************************)
(* Reading the outcome of a method call.                                   *)
(***************************************************************************)
\* the call returned a record
ReturnedRecord == bed_ret # Panicked /\ bed_ret.some

\* the record a call yields: the receiver after an in-place call, the
\* returned record otherwise
Yielded == IF bed_call.inplace THEN bed ELSE bed_ret.v

\* a call that yields a record: an in-place call that did not panic, or a
\* call that returned one
Yields == IF bed_call.inplace THEN bed_ret = NoneOpt ELSE ReturnedRecord

\* the addition of a graft call, as a fragment
Addition == <<bed_call.graft.start, bed_call.graft.end>>

\* two fragments share a base or touch
FragsOverlapOrTouch(f, g) == Min(f[2], g[2]) >= Max(f[1], g[1])

GeneralGraft ==
    /\ bed_call.fn = "graft"
    /\ ~bed_call.append_upstream /\ ~bed_call.append_downstream

(***************************************************************************)
(* C17.  clip_by(s, e) yields a record whose blocks are the non-empty      *)
(* intersections of the original blocks with                               *)
(* [max(thin_start, s), min(thin_end, e)), in order, and whose thick range *)
(* is the old thick range cut to the new thin range; with both bounds      *)
(* absent the record yielded is the original one.                          *)
(***************************************************************************)
C17_ClipByIntersectsBlocks ==
    (bed_call.fn = "clip_by" /\ Yields) =>
        LET old == bed_call.before
            lo == IF bed_call.start.some THEN Max(old.thin_start, bed_call.start.v)
                  ELSE old.thin_start
            hi == IF bed_call.end.some THEN Min(old.thin_end, bed_call.end.v)
                  ELSE old.thin_end
            y == Yielded
        IN  /\ BlocksOf(y) = ClipSeq(BlocksOf(old), lo, hi)
            /\ Max(old.thick_start, y.thin_start) < Min(old.thick_end, y.thin_end) =>
                  /\ y.thick_start = Max(old.thick_start, y.thin_start)
                  /\ y.thick_end = Min(old.thick_end, y.thin_end)
            /\ (~bed_call.start.some /\ ~bed_call.end.some) => y = old

(***************************************************************************)
(* C18.  A general graft (neither append flag) with allow_overlaps = false *)
(* returns no record exactly when the addition overlaps or touches a block *)
(* of the receiver; an addition apart from every block is accepted.        *)
(***************************************************************************)
C18_GeneralGraftRejectsOnlyOverlaps ==
    (GeneralGraft /\ ~bed_call.allow_overlaps /\ ~bed_call.inplace) =>
        LET blocks == BlocksOf(bed_call.before)
        IN  (~ReturnedRecord) <=>
                \E k \in 1..Len(blocks) : FragsOverlapOrTouch(blocks[k], Addition)

(***************************************************************************)
(* C19.  When a general graft succeeds, the blocks of the result cover     *)
(* exactly the original blocks and the addition, every original block that *)
(* neither overlaps nor touches the addition is kept, thin_start and       *)
(* thin_end are the least start and greatest end, exon_num is the number   *)
(* of blocks, and with coding set the thick bounds span the old thick      *)
(* range and the addition.                                                 *)
(***************************************************************************)
C19_GeneralGraftIsUnion ==
    (GeneralGraft /\ ReturnedRecord) =>
        LET old == bed_call.before
            blocks == BlocksOf(old)
            y == bed_ret.v
        IN  /\ Covered(BlocksOf(y)) = Covered(blocks) \cup Covered(<<Addition>>)
            /\ \A k \in 1..Len(blocks) :
                  ~FragsOverlapOrTouch(blocks[k], Addition) =>
                      \E j \in 1..Len(y.exon_sizes) : BlocksOf(y)[j] = blocks[k]
            /\ y.thin_start = Min(old.thin_start, Addition[1])
            /\ y.thin_end = Max(old.thin_end, Addition[2])
            /\ y.exon_num = Len(y.exon_sizes)
            /\ y.exon_num = Len(y.exon_starts)
            /\ bed_call.coding =>
                  /\ y.thick_start = Min(old.thick_start, Addition[1])
                  /\ y.thick_end = Max(old.thick_end, Addition[2])

(***************************************************************************)
(* C20.  graft and clip_by called with inplace = false leave every field   *)
(* of the receiver as it was, whether they return a record or nothing;     *)
(* called with inplace = true they return no value.                        *)
(***************************************************************************)
C20_InplaceOrReturn ==
    (bed_call.fn \in {"graft", "clip_by"}) =>
        /\ ~bed_call.inplace => bed = bed_call.before
        /\ bed_call.inplace => ~ReturnedRecord

\* a clip that cuts into the record, not in place: the record returned is
\* shorter than the receiver, which is as before
C20_Witness ==
    /\ bed_call.fn = "clip_by" /\ ~bed_call.inplace
    /\ ReturnedRecord
    /\ bed_ret.v.thin_start > bed_call.before.thin_start
    /\ bed_ret.v.exon_num >= 1
    /\ bed = bed_call.before

(***************************************************************************)
(* C21.  graft panics and leaves the record as it was when both append     *)
(* flags are set, when the record's format is not 12, when                 *)
(* chrom_compatible is set and the chromosomes differ or either is         *)
(* undefined, and when coding is set with append_upstream on a record with *)
(* a 5' UTR or with append_downstream on a record with a 3' UTR.           *)
(***************************************************************************)
GraftErrorCase ==
    LET c == bed_call
        self == c.before
    IN  \/ c.append_upstream /\ c.append_downstream
        \/ FormatOf(self) # 12
        \/ c.chrom_compatible
           /\ (~self.chrom.some \/ ~c.graft.chrom.some
               \/ self.chrom.v # c.graft.chrom.v)
        \/ c.coding /\ c.append_upstream /\ self.thin_start # self.thick_start
        \/ c.coding /\ c.append_downstream /\ self.thin_end # self.thick_end

C21_GraftErrors ==
    (bed_call.fn = "graft" /\ GraftErrorCase)
        => (bed_ret = Panicked /\ bed = bed_call.before)

\* an in-place call with chrom_compatible set and an addition with no chrom
C21_Witness ==
    /\ bed_call.fn = "graft" /\ bed_call.inplace
    /\ bed_call.chrom_compatible /\ ~bed_call.graft.chrom.some
    /\ ~(bed_call.append_upstream /\ bed_call.append_downstream)
    /\ FormatOf(bed_call.before) = 12
    /\ bed_ret = Panicked /\ bed = bed_call.before

(***************************************************************************)
(* C22.  A non-coding append_upstream call returns no record whenever the  *)
(* addition ends above thick_start, and a non-coding append_downstream     *)
(* call returns no record whenever the addition starts below thick_end.    *)
(***************************************************************************)
IntrudesIntoCds ==
    LET c == bed_call
    IN  /\ c.fn = "graft" /\ ~c.coding
        /\ \/ /\ c.append_upstream /\ ~c.append_downstream
              /\ c.graft.end > c.before.thick_start
           \/ /\ c.append_downstream /\ ~c.append_upstream
              /\ c.graft.start < c.before.thick_end

C22_CdsIntrusionRejected ==
    IntrudesIntoCds => (~ReturnedRecord /\ bed = bed_call.before)

(***************************************************************************)
(* Lines as text.  A string is the sequence of its characters, so that     *)
(* trimming, splitting, number parsing and number formatting are computed  *)
(* on the characters as the library functions compute them.                *)
(***************************************************************************)
Tab == "\t"

Digits == <<"0", "1", "2", "3", "4", "5", "6", "7", "8", "9">>

\* str::trim (line 65): white space off both ends
RECURSIVE trim(_)
trim(s) ==
    IF s = <<>> THEN s
    ELSE IF s[1] \in {" ", Tab} THEN trim(Tail(s))
    ELSE IF s[Len(s)] \in {" ", Tab} THEN trim(SubSeq(s, 1, Len(s) - 1))
    ELSE s

\* str::split (line 66): the pieces between the separators, one piece more
\* than there are separators
RECURSIVE split(_, _)
split(s, sep) ==
    IF \A k \in 1..Len(s) : s[k] # sep THEN <<s>>
    ELSE LET k == CHOOSE x \in 1..Len(s) :
                      s[x] = sep /\ \A y \in 1..(x - 1) : s[y] # sep
         IN  <<SubSeq(s, 1, k - 1)>> \o split(SubSeq(s, k + 1, Len(s)), sep)

\* the number written by a string of digits
RECURSIVE Decimal(_)
Decimal(d) ==
    IF d = <<>> THEN 0
    ELSE 10 * Decimal(SubSeq(d, 1, Len(d) - 1))
         + (CHOOSE v \in 0..9 : Digits[v + 1] = d[Len(d)])

\* str::parse::<uN> (lines 78-83, 105-152): an optional plus sign, then one
\* digit at least, and a value that fits N bits; None stands for the Err.
\* The numbers of the lines read have fewer than ten digits, so all of them
\* fit 64 bits; the test for 16 bits is the type's
parse(s, bits) ==
    LET d == IF s # <<>> /\ s[1] = "+" THEN Tail(s) ELSE s
    IN  IF d = <<>> \/ \E k \in 1..Len(d) : \A v \in 1..10 : Digits[v] # d[k]
        THEN NoneOpt
        ELSE IF bits = 16 /\ Decimal(d) > 65535 THEN NoneOpt
        ELSE SomeOf(Decimal(d))

\* u64::to_string (the {} of format!, lines 208-294)
RECURSIVE to_string(_)
to_string(n) ==
    IF n < 10 THEN <<Digits[n + 1]>>
    ELSE to_string(n \div 10) \o <<Digits[(n % 10) + 1]>>

\* the pieces joined by a separator
RECURSIVE join(_, _)
join(pieces, sep) ==
    IF pieces = <<>> THEN <<>>
    ELSE IF Len(pieces) = 1 THEN pieces[1]
    ELSE pieces[1] \o <<sep>> \o join(Tail(pieces), sep)

\* lines 135-152: split(',').filter(non-empty).map(parse::<u64>); None when
\* one of the pieces is not a number
RECURSIVE ParseAll(_)
ParseAll(pieces) ==
    IF pieces = <<>> THEN SomeOf(<<>>)
    ELSE LET rest == ParseAll(Tail(pieces))
             n == parse(pieces[1], 64)
         IN  IF pieces[1] = <<>> THEN rest
             ELSE IF ~n.some \/ ~rest.some THEN NoneOpt
             ELSE SomeOf(<<n.v>> \o rest.v)

\* lines 268-287: the numbers joined by commas, and a comma
WriteAll(nums) ==
    join([k \in 1..Len(nums) |-> to_string(nums[k])], ",") \o <<",">>

(***************************************************************************)
(* The constructors of the formats below nine (structs.rs lines 98-189).   *)
(***************************************************************************)
bed3(chrom, start, end) ==
    [empty EXCEPT !.format = SomeOf(3), !.chrom = SomeOf(chrom),
                  !.thin_start = start, !.thin_end = end]

bed4(chrom, start, end, name) ==
    [bed3(chrom, start, end) EXCEPT !.format = SomeOf(4), !.name = name]

bed5(chrom, start, end, name, score) ==
    [bed4(chrom, start, end, name) EXCEPT !.format = SomeOf(5),
                                          !.score = score]

bed6_entry(chrom, start, end, name, score, strand) ==
    [bed5(chrom, start, end, name, score) EXCEPT !.format = SomeOf(6),
                                                 !.strand = strand]

bed8(chrom, start, end, name, score, strand, thick_start, thick_end) ==
    [bed6_entry(chrom, start, end, name, score, strand)
        EXCEPT !.format = SomeOf(8), !.thick_start = thick_start,
               !.thick_end = thick_end]

(***************************************************************************)
(* parse_bed (extract.rs lines 51-159).  Reading a column the line does    *)
(* not have panics (index out of bounds), as does every expect and assert. *)
(***************************************************************************)
\* data[k], for k counted from 0
At(data, k) == data[k + 1]

\* data[k].parse::<uN>(); None when the column is missing or not a number
NumAt(data, k, bits) ==
    IF k < Len(data) THEN parse(At(data, k), bits) ELSE NoneOpt

\* lines 132-158: the block columns
ParseBlocks(data, thin_start, thin_end, thick_start, thick_end) ==
    LET ex_num == NumAt(data, 9, 16)
        exon_sizes == IF Len(data) > 10
                      THEN ParseAll(split(At(data, 10), ",")) ELSE NoneOpt
        exon_starts == IF Len(data) > 11
                       THEN ParseAll(split(At(data, 11), ",")) ELSE NoneOpt
    IN  IF ~ex_num.some \/ ~exon_sizes.some \/ ~exon_starts.some
        THEN Panicked
        ELSE SomeOf(bed12(At(data, 0), thin_start, thin_end, At(data, 3),
                          At(data, 4), At(data, 5) = <<"+">>,
                          thick_start, thick_end, At(data, 8),
                          ex_num.v, exon_sizes.v, exon_starts.v))

\* lines 105-131: the thick bounds and the colour
ParseThick(data, format, thin_start, thin_end) ==
    LET thick_start == NumAt(data, 6, 64)
        thick_end == NumAt(data, 7, 64)
    IN  IF ~thick_start.some THEN Panicked
        ELSE IF thick_start.v < thin_start THEN Panicked
        ELSE IF ~thick_end.some THEN Panicked
        ELSE IF thick_end.v > thin_end THEN Panicked
        ELSE IF thick_start.v > thick_end.v THEN Panicked
        ELSE IF format = 8
        THEN SomeOf(bed8(At(data, 0), thin_start, thin_end, At(data, 3),
                         At(data, 4), At(data, 5) = <<"+">>,
                         thick_start.v, thick_end.v))
        ELSE IF Len(data) <= 8 THEN Panicked
        ELSE IF format = 9
        THEN SomeOf(bed9(At(data, 0), thin_start, thin_end, At(data, 3),
                         At(data, 4), At(data, 5) = <<"+">>,
                         thick_start.v, thick_end.v, At(data, 8)))
        ELSE ParseBlocks(data, thin_start, thin_end, thick_start.v, thick_end.v)

\* lines 77-103: the columns up to the strand
ParseThin(data, format) ==
    LET chrom == At(data, 0)
        thin_start == NumAt(data, 1, 64)
        thin_end == NumAt(data, 2, 64)
    IN  IF ~thin_start.some \/ ~thin_end.some THEN Panicked
        ELSE IF ~(thin_start.v <= thin_end.v) THEN Panicked
        ELSE IF format = 3 THEN SomeOf(bed3(chrom, thin_start.v, thin_end.v))
        ELSE IF Len(data) <= 3 THEN Panicked
        ELSE IF format = 4
        THEN SomeOf(bed4(chrom, thin_start.v, thin_end.v, At(data, 3)))
        ELSE IF Len(data) <= 4 THEN Panicked
        ELSE IF format = 5
        THEN SomeOf(bed5(chrom, thin_start.v, thin_end.v, At(data, 3),
                         At(data, 4)))
        ELSE IF Len(data) <= 5 THEN Panicked
        ELSE IF format = 6
        THEN SomeOf(bed6_entry(chrom, thin_start.v, thin_end.v, At(data, 3),
                               At(data, 4), At(data, 5) = <<"+">>))
        ELSE ParseThick(data, format, thin_start.v, thin_end.v)

\* lines 51-159; the test of lines 68-70 is an empty block, and skip_blank is
\* not read
parse_bed(l, format) ==
    IF format < 3 \/ format > 12 THEN Panicked
    ELSE IF format = 10 \/ format = 11 THEN Panicked
    ELSE LET data == split(trim(l), Tab)
         IN  IF Len(data) = 0 THEN NoneOpt ELSE ParseThin(data, format)

(***************************************************************************)
(* to_line (extract.rs lines 175-296).                                     *)
(***************************************************************************)
\* the field of a column is defined (the Some arm of its match): the records
\* written here are those parse_bed returns, built by the constructors
\* (structs.rs lines 98-232), each of which defines the fields of the
\* columns of its format and no other
Defined(bed_entry, column) == column <= FormatOf(bed_entry)

\* the text of a column, counted from 1
Column(bed_entry, k) ==
    CASE k = 1 -> bed_entry.chrom.v
      [] k = 2 -> to_string(bed_entry.thin_start)
      [] k = 3 -> to_string(bed_entry.thin_end)
      [] k = 4 -> bed_entry.name
      [] k = 5 -> bed_entry.score
      [] k = 6 -> IF bed_entry.strand THEN <<"+">> ELSE <<"-">>
      [] k = 7 -> to_string(bed_entry.thick_start)
      [] k = 8 -> to_string(bed_entry.thick_end)
      [] k = 9 -> bed_entry.rgb.v
      [] k = 10 -> to_string(bed_entry.exon_num)
      [] k = 11 -> WriteAll(bed_entry.exon_sizes)
      [] k = 12 -> WriteAll(bed_entry.exon_starts)

to_line(bed_entry, format) ==
    IF FormatOf(bed_entry) = 0
    THEN [kind |-> "Err", err |-> "MissingTraitError"]
    ELSE IF FormatOf(bed_entry) < format
    THEN [kind |-> "Err", err |-> "FormattingError"]
    ELSE IF format < 3 \/ format = 7 \/ (format > 9 /\ format < 12)
            \/ format > 12
    THEN [kind |-> "Err", err |-> "FormattingError"]
    ELSE IF \E k \in 1..format : ~Defined(bed_entry, k)
    THEN [kind |-> "Err", err |-> "MissingTraitError"]
    ELSE [kind |-> "Ok",
          v |-> join([k \in 1..format |-> Column(bed_entry, k)], Tab)]

(***************************************************************************)
(* The lines read: BED12 lines in text form, with their bounds in order or *)
(* not, cut to any number of columns, and well-formed lines with one       *)
(* column replaced by an empty column, a non-number, a large number or the *)
(* column with a blank after it.                                           *)
(***************************************************************************)
\* the opaque strings of the input lines, as characters
Chars(w) ==
    CASE w = "chr9" -> <<"c", "h", "r", "9">>
      [] w = "tx" -> <<"t", "x">>
      [] w = "0" -> <<"0">>
      [] w = "+" -> <<"+">>
      [] w = "-" -> <<"-">>

\* the twelve columns of a line, and the columns beyond them
ColumnsOf(r) ==
    <<Chars(r.chrom), to_string(r.thin_start), to_string(r.thin_end),
      Chars(r.name), Chars(r.score), Chars(r.strand_line),
      to_string(r.thick_start), to_string(r.thick_end), Chars(r.rgb),
      to_string(r.ex_num), WriteAll(r.exon_sizes), WriteAll(r.exon_starts)>>
    \o [k \in 1..(MaxColumns - 12) |-> <<"e", "x", "t", "r", "a">>]

TextLines ==
    {r \in Lines : /\ r.thin_start = 0
                   /\ r.thin_end <= MaxTextSpan
                   /\ r.thick_start <= r.thin_end + 1
                   /\ r.thick_end <= r.thin_end + 1}

\* what a damaged column holds instead of the field f
Damaged(f) == {<<>>, <<"x">>, <<"9">>, f \o <<" ">>}

Formats == 0..MaxFormat

Pending == [kind |-> "Pending"]

InitCodec ==
    /\ \/ \E r \in TextLines : \E n \in 0..MaxColumns :
             text = join(SubSeq(ColumnsOf(r), 1, n), Tab)
       \/ \E r \in {x \in TextLines : WellFormed(x)} : \E k \in 1..12 :
             \E d \in Damaged(ColumnsOf(r)[k]) :
                text = join([ColumnsOf(r) EXCEPT ![k] = d], Tab)
    /\ columns \in Formats
    /\ entry = Pending /\ written = Pending /\ reparsed = Pending
    /\ line = "idle" /\ mode = "idle" /\ intron = FALSE /\ bed6 = FALSE
    /\ overflow_checks = FALSE /\ pc = "idle" /\ i = 0 /\ st = "idle"
    /\ result = "idle"
    /\ intervals = <<>> /\ merge_fn = "idle" /\ merge_ret = "idle"
    /\ bed = "idle" /\ bed_call = "idle" /\ bed_ret = "idle"

\* the record a call of parse_bed returned, if it returned one
IsRecord(ret) == ret # Pending /\ ret # Panicked /\ ret.some

ParseBed ==
    /\ entry = Pending
    /\ entry' = parse_bed(text, columns)
    /\ UNCHANGED <<text, columns, written, reparsed>>
    /\ UNCHANGED <<extract_vars, merge_vars, bed_vars>>

\* the record is written at any column count
ToLine ==
    /\ IsRecord(entry) /\ written = Pending
    /\ \E format \in Formats :
          written' = [format |-> format, ret |-> to_line(entry.v, format)]
    /\ UNCHANGED <<text, columns, entry, reparsed>>
    /\ UNCHANGED <<extract_vars, merge_vars, bed_vars>>

\* the line written is read at the column count it was written at
Reparse ==
    /\ written # Pending /\ written.ret.kind = "Ok" /\ reparsed = Pending
    /\ reparsed' = parse_bed(written.ret.v, written.format)
    /\ UNCHANGED <<text, columns, entry, written>>
    /\ UNCHANGED <<extract_vars, merge_vars, bed_vars>>

NextCodec == ParseBed \/ ToLine \/ Reparse

SpecCodec == InitCodec /\ [][NextCodec]_vars

(***************************************************************************)
(* C23.  parse_bed and to_line fail for the column counts below 3, equal   *)
(* to 7, 10 or 11 and above 12, whatever the line or the record holds:     *)
(* parse_bed returns no record and to_line returns no line.                *)
(***************************************************************************)
C23_UnsupportedFormatsRejected ==
    LET Unsupported == {f \in Formats : f < 3 \/ f \in {7, 10, 11} \/ f > 12}
    IN  /\ (entry # Pending /\ columns \in Unsupported) => ~IsRecord(entry)
        /\ (written # Pending /\ written.format \in Unsupported)
              => written.ret.kind # "Ok"

(***************************************************************************)
(* C24.  A record parsed at a supported column count f is written at f     *)
(* without error, and the line written parses at f to the same record.     *)
(***************************************************************************)
C24_RoundTrip ==
    (/\ IsRecord(entry) /\ columns \in {3, 4, 5, 6, 8, 9, 12}
     /\ written # Pending /\ written.format = columns)
        => /\ written.ret.kind = "Ok"
           /\ reparsed # Pending => reparsed = entry

(***************************************************************************)
(* bed_to_fraction on the text of a line: the mode is matched and the line *)
(* split, counted, parsed and validated (extract.rs lines 312-381) before  *)
(* the pass over the blocks.                                               *)
(***************************************************************************)
\* the opaque string a column holds
Word(chars) == CHOOSE w \in {"chr9", "tx", "0", "+", "-"} : Chars(w) = chars

\* the order tests with the test of thick_end against thin_end left out
InOrder_ThickEndUnchecked(thin_start, thin_end, thick_start, thick_end) ==
    /\ thin_start <= thin_end
    /\ ~(thick_start < thin_start)
    /\ ~(thick_start > thick_end)

\* lines 339, 346-348, 352-357: the assert and the three thick tests
InOrder(thin_start, thin_end, thick_start, thick_end) ==
    /\ thin_start <= thin_end
    /\ ~(thick_start < thin_start)
    /\ ~(thick_end > thin_end)
    /\ ~(thick_start > thick_end)

\* lines 323-381: the parsed line, or the panic of a test or an expect
ParseLine(l) ==
    LET data == split(trim(l), Tab)
        thin_start == NumAt(data, 1, 64)
        thin_end == NumAt(data, 2, 64)
        thick_start == NumAt(data, 6, 64)
        thick_end == NumAt(data, 7, 64)
        ex_num == NumAt(data, 9, 64)
        exon_sizes == ParseAll(split(At(data, 10), ","))
        exon_starts == ParseAll(split(At(data, 11), ","))
    IN  IF Len(data) = 0 THEN NoData
        ELSE IF Len(data) # 12 THEN Panicked
        ELSE IF ~thin_start.some \/ ~thin_end.some \/ ~thick_start.some
                \/ ~thick_end.some
        THEN Panicked
        ELSE IF ~InOrder(thin_start.v, thin_end.v, thick_start.v, thick_end.v)
        THEN Panicked
        ELSE IF ~ex_num.some \/ ~exon_sizes.some \/ ~exon_starts.some
        THEN Panicked
        ELSE [kind |-> "Line",
              r |-> [chrom |-> Word(At(data, 0)),
                     thin_start |-> thin_start.v, thin_end |-> thin_end.v,
                     name |-> Word(At(data, 3)), score |-> Word(At(data, 4)),
                     strand_line |-> Word(At(data, 5)),
                     thick_start |-> thick_start.v, thick_end |-> thick_end.v,
                     rgb |-> Word(At(data, 8)), ex_num |-> ex_num.v,
                     exon_sizes |-> exon_sizes.v,
                     exon_starts |-> exon_starts.v]]

\* lines 309-564, from the text of the line
bed_to_fraction_of_text(l, m, intr, b6, oc) ==
    IF m \notin Modes THEN Panicked
    ELSE LET p == ParseLine(l)
         IN  IF p.kind # "Line" THEN p
             ELSE bed_to_fraction(p.r, m, intr, b6, oc)

\* the lines read: BED12 lines with their bounds in order or not, cut to any
\* number of columns; well-formed lines with a number replaced by an empty
\* column, a non-number or a large number; and well-formed lines with white
\* space before or after them
FractionTexts(r) ==
    LET c == ColumnsOf(r)
        whole == join(SubSeq(c, 1, 12), Tab)
    IN  IF ~WellFormed(r) THEN {join(SubSeq(c, 1, n), Tab) : n \in 0..MaxColumns}
        ELSE {join(SubSeq([c EXCEPT ![k] = d], 1, 12), Tab) :
                 k \in {2, 3, 7, 8}, d \in {<<>>, <<"x">>, <<"9">>}}
             \cup {join(SubSeq([c EXCEPT ![k] = <<"x">>], 1, 12), Tab) :
                      k \in {10, 11, 12}}
             \cup {whole, whole \o <<Tab>>, whole \o <<Tab, " ">>,
                   whole \o <<" ">>, <<Tab>> \o whole}

InitText ==
    /\ \E r \in TextLines : text \in FractionTexts(r)
    /\ mode \in Modes \cup {"hello"}
    /\ intron \in BOOLEAN
    /\ bed6 \in BOOLEAN
    /\ overflow_checks \in BOOLEAN
    /\ result = Pending
    /\ line = "idle" /\ pc = "idle" /\ i = 0 /\ st = "idle"
    /\ intervals = <<>> /\ merge_fn = "idle" /\ merge_ret = "idle"
    /\ bed = "idle" /\ bed_call = "idle" /\ bed_ret = "idle"
    /\ columns = 0 /\ entry = "idle" /\ written = "idle" /\ reparsed = "idle"

FractionOfText ==
    /\ result = Pending
    /\ result' = bed_to_fraction_of_text(text, mode, intron, bed6,
                                         overflow_checks)
    /\ UNCHANGED <<line, mode, intron, bed6, overflow_checks, pc, i, st>>
    /\ UNCHANGED <<merge_vars, bed_vars, codec_vars>>

SpecText == InitText /\ [][FractionOfText]_vars

\* a line is malformed: its column count is not 12, a numeric column does
\* not hold a number (a list column: a piece that is neither empty nor a
\* number), or its bounds are out of order
Malformed(data) ==
    \/ Len(data) # 12
    \/ \E k \in {1, 2, 6, 7, 9} : ~parse(At(data, k), 64).some
    \/ \E k \in {10, 11} : ~ParseAll(split(At(data, k), ",")).some
    \/ parse(At(data, 1), 64).v > parse(At(data, 2), 64).v
    \/ parse(At(data, 6), 64).v > parse(At(data, 7), 64).v
    \/ parse(At(data, 6), 64).v < parse(At(data, 1), 64).v
    \/ parse(At(data, 7), 64).v > parse(At(data, 2), 64).v

(***************************************************************************)
(* C25.  bed_to_fraction panics, and returns neither a record nor "no      *)
(* data", for an unknown mode and for a malformed line, whatever the mode  *)
(* and the flags.  The claim as stated counts the columns of the line as   *)
(* it is given; the code reads the line without the white space at its     *)
(* ends.                                                                   *)
(***************************************************************************)
C25_MalformedAsGivenFails ==
    (result # Pending /\ (mode \notin Modes \/ Malformed(split(text, Tab))))
        => result = Panicked

C25_MalformedFails ==
    (result # Pending
     /\ (mode \notin Modes \/ Malformed(split(trim(text), Tab))))
        => result = Panicked

\* a twelve-column line with thick_end beyond thin_end, in a known mode
C25_Witness ==
    /\ result = Panicked /\ mode \in Modes
    /\ LET data == split(trim(text), Tab)
       IN  /\ Len(data) = 12
           /\ \A k \in {1, 2, 6, 7} : parse(At(data, k), 64).some
           /\ parse(At(data, 1), 64).v <= parse(At(data, 6), 64).v
           /\ parse(At(data, 6), 64).v <= parse(At(data, 7), 64).v
           /\ parse(At(data, 7), 64).v > parse(At(data, 2), 64).v

(***************************************************************************)
(* C26.  Mode "utr" with intron = false, on a coding line: a block that    *)
(* protrudes on both sides of the CDS yields the two fragments             *)
(* [block.start, thick_start) and [thick_end, block.end), a block that     *)
(* protrudes on one side yields that one part, a block inside the CDS      *)
(* yields none (and a block outside the CDS is kept whole); the output     *)
(* holds these fragments in order.                                         *)
(***************************************************************************)
C26_UtrKeepsBothFlanks ==
    (Returned /\ mode = "utr" /\ ~intron /\ Coding(line)) =>
        LET b == BlocksOf(line)
            flanks == [k \in 1..(2 * Len(b)) |->
                          IF k % 2 = 1
                          THEN <<b[(k + 1) \div 2][1],
                                 Min(b[(k + 1) \div 2][2], line.thick_start)>>
                          ELSE <<Max(b[k \div 2][1], line.thick_end),
                                 b[k \div 2][2]>>]
        IN  FragsOf(result) = SelectSeq(flanks, NonEmpty)

(***************************************************************************)
(* C27.  The contributor list of every elementary interval [p, q) of       *)
(* discrete_interval_map holds exactly the names of the input intervals    *)
(* with start <= p and end >= q, zero-length and identical input intervals *)
(* included; the elementary intervals do not overlap one another and are   *)
(* named 0, 1, 2, ... in output order.                                     *)
(***************************************************************************)
C27_ExactContributors ==
    (merge_fn = "discrete_interval_map" /\ merge_ret.kind = "Ok") =>
        LET out == merge_ret.interval_vec
        IN  /\ \A o \in 1..Len(out) :
                  /\ out[o].name = o - 1
                  /\ out[o].name \in DOMAIN merge_ret.out_map
                  /\ LET names == merge_ret.out_map[out[o].name]
                     IN  {names[k] : k \in 1..Len(names)}
                           = {intervals[k].name : k \in
                                 {x \in 1..Len(intervals) :
                                     /\ intervals[x].start <= out[o].start
                                     /\ intervals[x].end >= out[o].end}}
            /\ \A o, u \in 1..Len(out) :
                  o < u => (out[o].end <= out[u].start
                            \/ out[u].end <= out[o].start)

(***************************************************************************)
(* C28.  An append_upstream or append_downstream call with allow_overlaps  *)
(* false returns no record when the addition shares a base with a block of *)
(* the record, whichever end of the addition lies in the block.            *)
(***************************************************************************)
C28_SideGraftRejectsOverlaps ==
    (/\ bed_call.fn = "graft" /\ ~bed_call.allow_overlaps
     /\ bed_call.append_upstream # bed_call.append_downstream
     /\ \E k \in 1..Len(BlocksOf(bed_call.before)) :
           /\ Max(BlocksOf(bed_call.before)[k][1], Addition[1])
                 < Min(BlocksOf(bed_call.before)[k][2], Addition[2]))
        => (~ReturnedRecord /\ bed = bed_call.before)

(***************************************************************************)
(* C29.  The record a successful graft call yields satisfies the BED12     *)
(* invariants: exon_num is the length of exon_sizes and of exon_starts,    *)
(* exon_starts ascend strictly from 0, the blocks do not overlap, the last *)
(* block ends at thin_end, and thin_start <= thick_start <= thick_end <=   *)
(* thin_end.  (One call from a well-formed record; a sequence of calls     *)
(* starts with one.)                                                       *)
(***************************************************************************)
C29_GraftKeepsInvariants ==
    (bed_call.fn = "graft" /\ Yields) =>
        LET r == Yielded
            n == r.exon_num
        IN  /\ n = Len(r.exon_sizes) /\ n = Len(r.exon_starts)
            /\ n >= 1 => r.exon_starts[1] = 0
            /\ \A k \in 1..(Len(r.exon_starts) - 1) :
                  /\ r.exon_starts[k] < r.exon_starts[k + 1]
                  /\ r.exon_starts[k] + r.exon_sizes[k] <= r.exon_starts[k + 1]
            /\ n >= 1 =>
                  r.thin_start + r.exon_starts[n] + r.exon_sizes[n] = r.thin_end
            /\ r.thin_start <= r.thick_start
            /\ r.thick_start <= r.thick_end
            /\ r.thick_end <= r.thin_end

(***************************************************************************)
(* C30.  Where graft succeeds, the receiver after the call with inplace =  *)
(* true is the record the same call returns with inplace = false: the thin *)
(* and thick bounds and the three block fields agree.                      *)
(***************************************************************************)
C30_InplaceMatchesReturned ==
    (bed_call.fn = "graft" /\ bed_call.inplace /\ bed_ret = NoneOpt) =>
        LET c == bed_call
            other == graft(c.before, c.graft, FALSE, c.chrom_compatible,
                           c.allow_overlaps, c.coding, c.append_upstream,
                           c.append_downstream, overflow_checks).ret
        IN  (other # Panicked /\ other.some) =>
               /\ bed.thin_start = other.v.thin_start
               /\ bed.thin_end = other.v.thin_end
               /\ bed.thick_start = other.v.thick_start
               /\ bed.thick_end = other.v.thick_end
               /\ bed.exon_num = other.v.exon_num
               /\ bed.exon_sizes = other.v.exon_sizes
               /\ bed.exon_starts = other.v.exon_starts
====
